---- MODULE Spec2Model ----
(***************************************************************************)
(* State-machine model of graphrag's Markdown chunking strategy            *)
(* (graphrag/index/operations/chunk_text/markdown_strategy.py,             *)
(* run_markdown), specification Spec, and of the PDF loader's load_file    *)
(* (graphrag/index/input/pdf.py, load_pdf), specification SpecPdf.         *)
(*                                                                         *)
(* Text is modelled as a sequence of tokens.  A token is either one        *)
(* maximal run of non-whitespace characters (a "word" of str.split()) or   *)
(* the paragraph separator "\n\n"; inside a paragraph consecutive tokens   *)
(* are separated by whitespace other than a blank line.  The empty string  *)
(* is the empty sequence.                                                  *)
(*                                                                         *)
(* run_markdown is a generator: it runs only while the consumer has a      *)
(* next() call outstanding (demand), and it suspends at each yield.        *)
(***************************************************************************)
EXTENDS Naturals, Sequences, FiniteSets

\* ------------------------------------------------------------------ bounds

\* Largest number of documents in the enumerated inputs.
MaxDocs == 2
\* Largest total number of paragraphs in the enumerated inputs.
MaxParas == 3
\* Largest config.size of the enumerated inputs.
MaxSize == 3
\* Word count and config.size of the one-table scenario document.
ScenarioTableWords == 50
ScenarioTableSize == 10

\* ------------------------------------------------------------ text helpers

\* The blank-line paragraph separator of text.split('\n\n') / "\n\n".join.
ParaSep == "\n\n"

\* "\n\n".join(ps)
RECURSIVE Join(_)
Join(ps) ==
    IF ps = <<>> THEN <<>>
    ELSE IF Len(ps) = 1 THEN ps[1]
    ELSE ps[1] \o <<ParaSep>> \o Join(Tail(ps))

\* text.split('\n\n'): always at least one (possibly empty) paragraph.
RECURSIVE Split(_)
Split(text) ==
    IF \A i \in DOMAIN text : text[i] # ParaSep THEN <<text>>
    ELSE LET i == CHOOSE k \in DOMAIN text :
                      /\ text[k] = ParaSep
                      /\ \A m \in 1..(k - 1) : text[m] # ParaSep
         IN  <<SubSeq(text, 1, i - 1)>> \o Split(SubSeq(text, i + 1, Len(text)))

\* len(text.split()): the number of whitespace-delimited words.
WordCount(text) == Cardinality({i \in DOMAIN text : text[i] # ParaSep})

\* f"{header}\n\n{chunk_text}"
WithHeader(header, chunk_text) == header \o <<ParaSep>> \o chunk_text

\* -------------------------------------------------- paragraph classification

\* len(group(1)) of header_pattern for a leading token: 1..6 hashes, 0 = no match
\* (seven hashes are not followed by whitespace after the sixth).
HashLevel(tok) ==
    CASE tok = "#" -> 1
      [] tok = "##" -> 2
      [] tok = "###" -> 3
      [] tok = "####" -> 4
      [] tok = "#####" -> 5
      [] tok = "######" -> 6
      [] OTHER -> 0

\* header_pattern.match(paragraph.strip()): hashes, whitespace, some text.
HeaderMatch(paragraph) ==
    /\ Len(paragraph) >= 2
    /\ HashLevel(paragraph[1]) > 0

\* header_level = len(header_match.group(1))
HeaderLevel(paragraph) == HashLevel(paragraph[1])

TableOpenTok == "<table>"
TableCloseTok == "</table>"
TableWholeTok == "<table>r</table>"
ImageTok == "![i](u)"

\* bool(table_pattern.search(paragraph)): an opening tag with a closing tag after it.
HasTable(paragraph) ==
    \/ \E i \in DOMAIN paragraph : paragraph[i] = TableWholeTok
    \/ \E i, j \in DOMAIN paragraph :
          /\ i < j
          /\ paragraph[i] \in {TableOpenTok, TableWholeTok}
          /\ paragraph[j] \in {TableCloseTok, TableWholeTok}

\* bool(image_pattern.search(paragraph))
HasImage(paragraph) == \E i \in DOMAIN paragraph : paragraph[i] = ImageTok

\* ------------------------------------------------------------------ inputs

\* Paragraphs the enumerated documents are built from: two headers of
\* different level, a plain paragraph and a table paragraph.
Alphabet == { <<"#", "A">>, <<"##", "B">>, <<"w">>, <<TableWholeTok>> }

\* Texts of exactly n paragraphs over the alphabet ("" for n = 0).
DocTexts(n) == {Join(ps) : ps \in [1..n -> Alphabet]}

\* Lists of exactly d documents holding at most budget paragraphs in total.
RECURSIVE InputsWith(_, _)
InputsWith(d, budget) ==
    IF d = 0 THEN {<<>>}
    ELSE UNION { {<<t>> \o rest : t \in DocTexts(n),
                                  rest \in InputsWith(d - 1, budget - n)} :
                 n \in 0..budget }

EnumeratedInputs == UNION {InputsWith(d, MaxParas) : d \in 0..MaxDocs}

\* The document of spec scenario 1: a title and two plain paragraphs.
TitleDoc ==
    <<"#", "Title", ParaSep, "Alpha", "beta.", ParaSep,
      "Gamma", "delta", "epsilon", "zeta.">>

\* The document of spec scenario 3: one table of ScenarioTableWords words.
TableDoc ==
    [i \in 1..ScenarioTableWords |->
        IF i = 1 THEN TableOpenTok
        ELSE IF i = ScenarioTableWords THEN TableCloseTok ELSE "cell"]

\* Documents exercising the rest of the classification and longer
\* paragraphs: images, tables of several words, an unterminated table, tags
\* in different paragraphs, seven hashes, a bare hash, empty paragraphs, a
\* header that carries a table, nested sections.
ExtraDocs ==
    { <<ImageTok>>,
      <<"#", "A", ParaSep, ImageTok, "w", ParaSep, "w">>,
      <<"###", "C", ParaSep, TableWholeTok, ParaSep, "#", "A", ParaSep, "w">>,
      <<"#", "A", ParaSep, TableOpenTok, TableCloseTok, ParaSep,
        "##", "B", ParaSep, "w">>,
      <<"w", ParaSep, TableOpenTok, "c", TableCloseTok, ParaSep, "x", "y">>,
      <<"x", "y", ParaSep, "w", ParaSep, "#", "A", ParaSep, "x", "y", "z">>,
      <<TableOpenTok, "w">>,
      <<TableOpenTok, ParaSep, TableCloseTok>>,
      <<"#######", "z", ParaSep, "w">>,
      <<"#">>,
      <<"w", ParaSep, ParaSep, "x", "y">>,
      <<ParaSep>>,
      <<"#", "A", ParaSep>>,
      <<"#", TableOpenTok, TableCloseTok, ParaSep, "w">> }

\* The values of config.size the extra documents are run with.
ExtraSizes == 1..5

\* The values of config.overlap.
Overlaps == {0, 1}

\* The (input, config.size) pairs a run starts from.
Runs ==
    {[input |-> inp, size |-> sz] : inp \in EnumeratedInputs, sz \in 1..MaxSize}
    \cup {[input |-> <<d>>, size |-> sz] : d \in ExtraDocs, sz \in ExtraSizes}
    \cup {[input |-> <<TitleDoc>>, size |-> 3]}
    \cup {[input |-> <<TableDoc>>, size |-> ScenarioTableSize]}

\* ------------------------------------------------------------------- state

VARIABLES
    run,      \* the generator frame of run_markdown and what it has emitted
    shadow,   \* a second run of run_markdown differing only in config.overlap
    demand,   \* TRUE while a next() call of the consumer is outstanding
    stopped,  \* TRUE once the consumer has abandoned the sequence
    superseded,  \* history: the headers replaced while nothing was pending
    load      \* the frame of a load_file call of load_pdf

vars == <<run, shadow, demand, stopped, superseded, load>>

YieldPcs == {"yield_header", "yield_table", "yield_plain", "yield_final"}

\* The frame of a generator created by run_markdown(input, config, tick):
\* nothing has run yet, no chunk was yielded and tick was never called.
Frame(inp, size, overlap) ==
    [ input |-> inp,
      config |-> [size |-> size, overlap |-> overlap],
      pc |-> "doc",
      doc_idx |-> 0,
      paragraphs |-> <<>>,
      para_idx |-> 0,
      current_chunk |-> <<>>,
      current_header_level |-> 0,
      current_header |-> <<>>,
      chunks |-> <<>>,
      ticks |-> <<>> ]

\* No load_file call is in progress.
NoLoad == [pc |-> "idle"]

Init ==
    \E r \in Runs : \E o \in Overlaps : \E o2 \in Overlaps \ {o} :
        /\ run = Frame(r.input, r.size, o)
        /\ shadow = Frame(r.input, r.size, o2)
        /\ demand = FALSE
        /\ stopped = FALSE
        /\ superseded = <<>>
        /\ load = NoLoad

\* -------------------------------------------------------- generator steps

\* text of the document the for loop is at
Text(g) == g.input[g.doc_idx + 1]

\* paragraph of the inner for loop
Paragraph(g) == g.paragraphs[g.para_idx + 1]

\* yield TextChunk(text_chunk=..., source_doc_indices=[doc_idx], n_tokens=...)
Yield(g, chunk_text, n_tokens, site) ==
    [g EXCEPT !.chunks = Append(@, [text_chunk |-> chunk_text,
                                     source_doc_indices |-> <<g.doc_idx>>,
                                     n_tokens |-> n_tokens]),
              !.pc = site]

\* tick(1); each call is logged with the document it was made for
Tick(g) == [g EXCEPT !.ticks = Append(@, g.doc_idx)]

\* for doc_idx, text in enumerate(input): the input is exhausted
AtFinish(g) == g.pc = "doc" /\ g.doc_idx = Len(g.input)
Finish(g) == [g EXCEPT !.pc = "done"]

\* Faulty variant of EmptyDoc: an empty document is skipped without tick(1).
EmptyDocNoTick(g) == [g EXCEPT !.doc_idx = @ + 1]

\* if not text: tick(1); continue
AtEmptyDoc(g) == g.pc = "doc" /\ g.doc_idx < Len(g.input) /\ Text(g) = <<>>
EmptyDoc(g) == [Tick(g) EXCEPT !.doc_idx = @ + 1]

\* Faulty variant of StartDoc: the header context of the previous document
\* is not reset.
StartDocNoReset(g) ==
    [g EXCEPT !.paragraphs = Split(Text(g)),
              !.current_chunk = <<>>,
              !.para_idx = 0,
              !.pc = "para"]

\* paragraphs = text.split('\n\n') and the reset of the working state
AtStartDoc(g) == g.pc = "doc" /\ g.doc_idx < Len(g.input) /\ Text(g) # <<>>
StartDoc(g) ==
    [g EXCEPT !.paragraphs = Split(Text(g)),
              !.current_chunk = <<>>,
              !.current_header_level = 0,
              !.current_header = <<>>,
              !.para_idx = 0,
              !.pc = "para"]

AtPara(g) == g.pc = "para" /\ g.para_idx < Len(g.paragraphs)

\* Faulty variant of HeaderFlushes: only a strictly higher header flushes.
HeaderFlushesStrict(g) ==
    /\ g.current_chunk # <<>>
    /\ \/ HeaderLevel(Paragraph(g)) < g.current_header_level
       \/ g.current_header_level = 0

\* the header flush condition
HeaderFlushes(g) ==
    /\ g.current_chunk # <<>>
    /\ \/ HeaderLevel(Paragraph(g)) <= g.current_header_level
       \/ g.current_header_level = 0

\* chunk_text of the header flush
HeaderChunkText(g) ==
    IF g.current_header # <<>>
    THEN WithHeader(g.current_header, Join(g.current_chunk))
    ELSE Join(g.current_chunk)

\* current_header_level = header_level; current_header = paragraph
SetHeader(g) ==
    [g EXCEPT !.current_header_level = HeaderLevel(Paragraph(g)),
              !.current_header = Paragraph(g),
              !.para_idx = @ + 1,
              !.pc = "para"]

\* Faulty variant of HeaderPara: n_tokens is counted before the header is
\* prefixed.
HeaderParaStaleCount(g) ==
    IF HeaderFlushes(g)
    THEN Yield(g, HeaderChunkText(g), WordCount(Join(g.current_chunk)), "yield_header")
    ELSE SetHeader(g)

\* Faulty variant of HeaderPara: a header that is replaced while nothing is
\* pending is kept as a pending paragraph.
HeaderParaKeepingOld(g) ==
    IF HeaderFlushes(g)
    THEN Yield(g, HeaderChunkText(g), WordCount(HeaderChunkText(g)), "yield_header")
    ELSE SetHeader([g EXCEPT !.current_chunk =
                        IF @ = <<>> /\ g.current_header # <<>>
                        THEN <<g.current_header>>
                        ELSE @])

\* a header paragraph, up to the yield or to the end of the loop body
AtHeaderPara(g) == AtPara(g) /\ HeaderMatch(Paragraph(g))
HeaderPara(g) ==
    IF HeaderFlushes(g)
    THEN Yield(g, HeaderChunkText(g), WordCount(HeaderChunkText(g)), "yield_header")
    ELSE SetHeader(g)

\* after the header flush's yield: current_chunk = [] and the header is set
AtResumeHeader(g) == g.pc = "yield_header"
ResumeHeader(g) == SetHeader([g EXCEPT !.current_chunk = <<>>])

\* Faulty variant of SeedHeader: the seeded header stays the active header.
SeedHeaderKeeping(g) ==
    IF g.current_chunk = <<>> /\ g.current_header # <<>>
    THEN [g EXCEPT !.current_chunk = <<g.current_header>>]
    ELSE g

\* if not current_chunk and current_header: seed the chunk with the header
SeedHeader(g) ==
    IF g.current_chunk = <<>> /\ g.current_header # <<>>
    THEN [g EXCEPT !.current_chunk = <<g.current_header>>,
                   !.current_header = <<>>]
    ELSE g

\* Faulty variant of AppendAndCheck: a chunk that has reached config.size is
\* flushed already.
AppendAndCheckAtLimit(g, site) ==
    LET h == [g EXCEPT !.current_chunk = Append(@, Paragraph(g))]
        chunk_size == WordCount(Join(h.current_chunk))
    IN  IF chunk_size >= h.config.size
        THEN Yield(h, Join(h.current_chunk), chunk_size, site)
        ELSE [h EXCEPT !.para_idx = @ + 1]

\* current_chunk.append(paragraph), then the size check and the overflow flush
AppendAndCheck(g, site) ==
    LET h == [g EXCEPT !.current_chunk = Append(@, Paragraph(g))]
        chunk_size == WordCount(Join(h.current_chunk))
    IN  IF chunk_size > h.config.size
        THEN Yield(h, Join(h.current_chunk), chunk_size, site)
        ELSE [h EXCEPT !.para_idx = @ + 1]

\* Faulty variant of TablePara: an overflowing chunk is cut at config.size
\* words.
TableParaSplitting(g) ==
    LET s == SeedHeader(g)
        h == [s EXCEPT !.current_chunk = Append(@, Paragraph(s))]
        chunk_text == Join(h.current_chunk)
    IN  IF WordCount(chunk_text) > h.config.size
        THEN Yield(h, SubSeq(chunk_text, 1, h.config.size), h.config.size,
                   "yield_table")
        ELSE [h EXCEPT !.para_idx = @ + 1]

\* a table or image paragraph
AtTablePara(g) ==
    /\ AtPara(g)
    /\ ~HeaderMatch(Paragraph(g))
    /\ HasTable(Paragraph(g)) \/ HasImage(Paragraph(g))
TablePara(g) == AppendAndCheck(SeedHeader(g), "yield_table")

\* Faulty variant of PlainPara: the paragraph is appended without the size
\* check.
PlainParaNoCheck(g) ==
    [g EXCEPT !.current_chunk = Append(@, Paragraph(g)), !.para_idx = @ + 1]

\* a plain paragraph
AtPlainPara(g) ==
    /\ AtPara(g)
    /\ ~HeaderMatch(Paragraph(g))
    /\ ~(HasTable(Paragraph(g)) \/ HasImage(Paragraph(g)))
PlainPara(g) == AppendAndCheck(g, "yield_plain")

\* Faulty variant of ResumeOverflow: current_chunk is not emptied.
ResumeOverflowKeeping(g) ==
    [g EXCEPT !.para_idx = @ + 1, !.pc = "para"]

\* Variant of ResumeOverflow that applies config.overlap: the last overlap
\* paragraphs of the flushed chunk open the next one.
ResumeOverflowWithOverlap(g) ==
    LET n == Len(g.current_chunk)
        keep == IF g.config.overlap < n THEN g.config.overlap ELSE n
    IN  [g EXCEPT !.current_chunk = SubSeq(@, n - keep + 1, n),
                  !.para_idx = @ + 1,
                  !.pc = "para"]

\* after an overflow flush's yield: current_chunk = []
AtResumeOverflow(g) == g.pc \in {"yield_table", "yield_plain"}
ResumeOverflow(g) ==
    [g EXCEPT !.current_chunk = <<>>, !.para_idx = @ + 1, !.pc = "para"]

\* chunk_text of the end-of-document flush
FinalChunkText(g) ==
    IF /\ g.current_header # <<>>
       /\ \A i \in DOMAIN g.current_chunk : g.current_chunk[i] # g.current_header
    THEN WithHeader(g.current_header, Join(g.current_chunk))
    ELSE Join(g.current_chunk)

\* tick(1) at the end of the document and the step to the next one
NextDoc(g) == [Tick(g) EXCEPT !.doc_idx = @ + 1, !.pc = "doc"]

\* Faulty variant of EndDoc: tick(1) is called before the last chunk of the
\* document is yielded.
EndDocTickFirst(g) ==
    IF g.current_chunk # <<>>
    THEN Yield(Tick(g), FinalChunkText(g), WordCount(FinalChunkText(g)), "yield_final")
    ELSE NextDoc(g)

\* Faulty variant of EndDoc: an active header with nothing pending is flushed
\* at the end of the document.
EndDocHeaderAlone(g) ==
    IF g.current_chunk # <<>> \/ g.current_header # <<>>
    THEN Yield(g, FinalChunkText(g), WordCount(FinalChunkText(g)), "yield_final")
    ELSE NextDoc(g)

\* the paragraphs are exhausted: the last flush, or straight to tick(1)
AtEndDoc(g) == g.pc = "para" /\ g.para_idx = Len(g.paragraphs)
EndDoc(g) ==
    IF g.current_chunk # <<>>
    THEN Yield(g, FinalChunkText(g), WordCount(FinalChunkText(g)), "yield_final")
    ELSE NextDoc(g)

\* after the last flush's yield: tick(1)
AtResumeFinal(g) == g.pc = "yield_final"
ResumeFinal(g) == NextDoc(g)

\* A header paragraph arrives while a header is active and nothing is
\* pending: the header flush condition fails on the empty current_chunk and
\* the active header is overwritten.
Supersedes(g) ==
    /\ AtHeaderPara(g)
    /\ g.current_header # <<>>
    /\ g.current_chunk = <<>>

\* One step of a generator, whichever it is at.
Step(g) ==
    CASE AtFinish(g) -> Finish(g)
      [] AtEmptyDoc(g) -> EmptyDoc(g)
      [] AtStartDoc(g) -> StartDoc(g)
      [] AtHeaderPara(g) -> HeaderPara(g)
      [] AtResumeHeader(g) -> ResumeHeader(g)
      [] AtTablePara(g) -> TablePara(g)
      [] AtPlainPara(g) -> PlainPara(g)
      [] AtResumeOverflow(g) -> ResumeOverflow(g)
      [] AtEndDoc(g) -> EndDoc(g)
      [] AtResumeFinal(g) -> ResumeFinal(g)
      [] OTHER -> g

\* ----------------------------------------------------------------- actions

\* A step of the generator: it needs an outstanding next(), which a yield or
\* the end of the generator answers.  The shadow run takes its own step.
Advance(next) ==
    /\ demand
    /\ run' = next
    /\ shadow' = Step(shadow)
    /\ demand' = (next.pc \notin YieldPcs \cup {"done"})
    /\ superseded' = IF Supersedes(run)
                     THEN Append(superseded, [doc_idx |-> run.doc_idx,
                                              header |-> run.current_header])
                     ELSE superseded
    /\ UNCHANGED <<stopped, load>>

\* The consumer asks for the next chunk.
Pull ==
    /\ ~demand
    /\ ~stopped
    /\ run.pc # "done"
    /\ demand' = TRUE
    /\ UNCHANGED <<run, shadow, stopped, superseded, load>>

\* The consumer stops consuming the sequence.
Stop ==
    /\ ~demand
    /\ ~stopped
    /\ run.pc # "done"
    /\ stopped' = TRUE
    /\ UNCHANGED <<run, shadow, demand, superseded, load>>

DoFinish == AtFinish(run) /\ Advance(Finish(run))
DoEmptyDoc == AtEmptyDoc(run) /\ Advance(EmptyDoc(run))
DoStartDoc == AtStartDoc(run) /\ Advance(StartDoc(run))
DoHeaderPara == AtHeaderPara(run) /\ Advance(HeaderPara(run))
DoResumeHeader == AtResumeHeader(run) /\ Advance(ResumeHeader(run))
DoTablePara == AtTablePara(run) /\ Advance(TablePara(run))
DoPlainPara == AtPlainPara(run) /\ Advance(PlainPara(run))
DoResumeOverflow == AtResumeOverflow(run) /\ Advance(ResumeOverflow(run))
DoEndDoc == AtEndDoc(run) /\ Advance(EndDoc(run))
DoResumeFinal == AtResumeFinal(run) /\ Advance(ResumeFinal(run))

Next ==
    \/ Pull
    \/ Stop
    \/ DoFinish
    \/ DoEmptyDoc
    \/ DoStartDoc
    \/ DoHeaderPara
    \/ DoResumeHeader
    \/ DoTablePara
    \/ DoPlainPara
    \/ DoResumeOverflow
    \/ DoEndDoc
    \/ DoResumeFinal

Spec == Init /\ [][Next]_vars

\* The emitted chunks and the tick calls of the run.
chunks == run.chunks
ticks == run.ticks

\* ---------------------------------------------------------------- load_pdf
\*
\* load_file(path, group) of load_pdf and the functions it calls.  A Python
\* string is the sequence of its pieces, a path the sequence of its
\* segments, a dict the set of its keys with their values, a DataFrame the
\* sequence of its rows.  Each call of a collaborator (the storage, the
\* temporary file, the HTTP service) is one step, with every outcome the
\* collaborator can have.

\* response.status_code == 200
OkStatus == 200
\* a status code of the else branches
ErrorStatus == 500

\* The tags of the three placeholder texts, in ASCII for the source's
\* literals: parsing failed, fetching the results failed, processing error.
ParseFailedTag == "[parse-failed]"
ResultsFailedTag == "[results-failed]"
ProcessErrorTag == "[process-error]"

\* str of a relative path: the segments with "/" between them
RECURSIVE PathStr(_)
PathStr(path) ==
    IF Len(path) <= 1 THEN path
    ELSE <<Head(path), "/">> \o PathStr(Tail(path))

\* Path(path).name
PathName(path) == <<path[Len(path)]>>

\* The keys of the dicts of the service's JSON bodies, and a dict: d.keys
\* are the keys present, d.vals their values.
Keys == {"output_dir", "file_path", "markdown_text", "contents"}
None == [is_none |-> TRUE, keys |-> {}, vals |-> [k \in Keys |-> <<>>]]
Dict(keys, vals) == [is_none |-> FALSE, keys |-> keys, vals |-> vals]
NoVals == [k \in Keys |-> <<>>]

\* key in d;  not d;  d[key] = value
In(key, d) == ~d.is_none /\ key \in d.keys
Not(d) == d.is_none \/ d.keys = {}
SetItem(d, key, value) ==
    Dict(d.keys \cup {key}, [d.vals EXCEPT ![key] = value])

\* The outcome of a call: a returned value or a raised Exception.
Return(value) == [raised |-> FALSE, msg |-> "", value |-> value]
Raise(msg) == [raised |-> TRUE, msg |-> msg, value |-> None]

\* An HTTP exchange: requests.post / requests.get raises, or there is a
\* response with a status code whose json() raises, is not a dict, or is the
\* dict body.
Response(raises, status_code, json_raises, is_dict, body) ==
    [raises |-> raises, status_code |-> status_code,
     json_raises |-> json_raises, is_dict |-> is_dict, body |-> body]
ConnectionError == Response(TRUE, ErrorStatus, FALSE, FALSE, None)
ServerError == Response(FALSE, ErrorStatus, FALSE, FALSE, None)
BadJson == Response(FALSE, OkStatus, TRUE, FALSE, None)
JsonList == Response(FALSE, OkStatus, FALSE, FALSE, None)
JsonDict(keys, vals) == Response(FALSE, OkStatus, FALSE, TRUE, Dict(keys, vals))

\* The output directories the parse service answers with (absolute paths: a
\* "/" precedes every segment; <<>> is the empty string).
OutputDirs == { <<"tmp", "u1">>, <<"tmp", "u1", "auto">>, <<>> }

\* What do_parse can meet: to_b64 raising, or an exchange with the service.
ParseWorlds ==
    {[b64_raises |-> TRUE, response |-> ConnectionError]}
    \cup {[b64_raises |-> FALSE, response |-> r] :
            r \in {ConnectionError, ServerError, BadJson, JsonList,
                   JsonDict({}, NoVals)}
                  \cup {JsonDict({"output_dir"},
                                 [NoVals EXCEPT !["output_dir"] = d]) :
                           d \in OutputDirs}}

\* The body of do_parse's try block.
DoParseBody(file_path, w) ==
    IF w.b64_raises THEN Raise("to_b64")
    ELSE IF w.response.raises THEN Raise("post")
    ELSE IF w.response.status_code = OkStatus
    THEN IF w.response.json_raises THEN Raise("json")
         ELSE IF ~w.response.is_dict THEN Raise("TypeError")
         ELSE Return(SetItem(w.response.body, "file_path", file_path))
    ELSE Raise("response.text")

\* do_parse: except Exception: log.error(...); return None
DoParse(file_path, w) ==
    LET out == DoParseBody(file_path, w)
    IN  IF out.raised THEN Return(None) ELSE out

\* The markdown text of a parsed PDF.
MarkdownText == <<"#", "A", ParaSep, "w">>

\* What get_parse_results can meet.
ResultsResponses ==
    { ConnectionError, ServerError, BadJson, JsonList,
      JsonDict({}, NoVals),
      JsonDict({"markdown_text"}, [NoVals EXCEPT !["markdown_text"] = MarkdownText]),
      JsonDict({"markdown_text"}, NoVals),
      JsonDict({"contents"}, [NoVals EXCEPT !["contents"] = <<"dict", "page_0">>]),
      JsonDict({"markdown_text", "contents"},
               [NoVals EXCEPT !["markdown_text"] = MarkdownText,
                              !["contents"] = <<"dict", "page_0">>]),
      JsonDict({"markdown_text", "contents"},
               [NoVals EXCEPT !["markdown_text"] = MarkdownText,
                              !["contents"] = <<"list">>]) }

\* get_parse_results: the result of a 200 response, None otherwise and on
\* every exception (result.get raises on a body that is not a dict)
GetParseResults(output_dir, r) ==
    LET body == IF r.raises THEN Raise("get")
                ELSE IF r.status_code = OkStatus
                THEN IF r.json_raises THEN Raise("json")
                     ELSE IF ~r.is_dict THEN Raise("AttributeError")
                     ELSE Return(r.body)
                ELSE Return(None)
    IN  IF body.raised THEN Return(None) ELSE body

\* extract_structured_info: parse_content['contents'].items() raises on
\* contents that are not a dict; the "structure" entry is added when a page
\* was found.
ExtractStructuredInfo(parse_content) ==
    IF In("contents", parse_content)
    THEN IF parse_content.vals["contents"][1] # "dict"
         THEN Raise("AttributeError")
         ELSE Return(IF Len(parse_content.vals["contents"]) > 1
                     THEN {"structure"} ELSE {})
    ELSE Return({})

\* The arguments of load_file: the paths, and the group dict or None.
Paths == { <<"a.pdf">>, <<"docs", "b.pdf">> }
Groups == { None, Dict({}, NoVals) }

\* temp_file.name
TempName == <<"tmp0.pdf">>

\* The outcomes of storage.get, of writing the temporary file and of
\* storage.get_creation_date.
GetOutcomes == {Return(None), Raise("storage.get")}
TempOutcomes == {Return(None), Raise("OSError")}
DateOutcomes == {[raised |-> FALSE, msg |-> "", date |-> "d1"],
                 [raised |-> TRUE, msg |-> "creation_date", date |-> ""]}

\* The frame of load_file(path, group) before its first step.  The *_call
\* fields log the outcome each collaborator had.
LoadFrame(path, group) ==
    [ pc |-> "get",
      path |-> path,
      group |-> group,
      file_path |-> <<>>,
      result |-> None,
      output_dir |-> <<>>,
      doc_id |-> <<>>,
      parse_content |-> None,
      data |-> <<>>,
      get_call |-> <<>>,
      temp_call |-> <<>>,
      parse_call |-> <<>>,
      results_call |-> <<>>,
      date_call |-> <<>>,
      except_date_call |-> <<>> ]

\* pd.DataFrame([{"text": ..., "title": Path(path).name, "id": ...}])
Row(l, text, id) ==
    [ text |-> text,
      title |-> PathName(l.path),
      id |-> id,
      metadata |-> <<>>,
      columns |-> {},
      creation_date |-> <<>> ]

\* the placeholder texts
ParseFailedText(path) == <<ParseFailedTag, " ">> \o PathStr(path)
ResultsFailedText(path) == <<ResultsFailedTag, " ">> \o PathStr(path)
ProcessErrorText(path, msg) ==
    <<ProcessErrorTag, " ">> \o PathStr(path) \o <<": ", msg>>

\* for key, value in group.items(): data[key] = value
WithGroup(l) == [l EXCEPT !.data[1].columns = l.group.keys]

\* The steps of the try block, whose exceptions the except clause handles.
TryPcs == {"get", "temp", "parse", "results", "date"}

\* Faulty variant of Throw: get_creation_date of the except clause is not
\* guarded.
ThrowUnguarded(l, msg) ==
    IF l.pc \in TryPcs
    THEN WithGroup([l EXCEPT
             !.data = <<Row(l, ProcessErrorText(l.path, msg), PathStr(l.path))>>,
             !.pc = "except_date"])
    ELSE [l EXCEPT !.pc = "raised"]

\* An exception raised at the step the frame is at: the except clause builds
\* the error record; the bare except around its get_creation_date falls back
\* to pd.Timestamp.now(); anywhere else the exception leaves load_file.
Throw(l, msg) ==
    IF l.pc \in TryPcs
    THEN WithGroup([l EXCEPT
             !.data = <<Row(l, ProcessErrorText(l.path, msg), PathStr(l.path))>>,
             !.pc = "except_date"])
    ELSE IF l.pc = "except_date"
    THEN [l EXCEPT !.data[1].creation_date = <<"now">>, !.pc = "returned"]
    ELSE [l EXCEPT !.pc = "raised"]

\* if group is None: group = {};  buffer = BytesIO(await storage.get(...))
Get(l, o) ==
    LET g == [l EXCEPT !.group = IF @.is_none THEN Dict({}, NoVals) ELSE @,
                       !.get_call = <<o>>]
    IN  IF o.raised THEN Throw(g, o.msg) ELSE [g EXCEPT !.pc = "temp"]

\* the temporary file is written; file_path = temp_file.name
Temp(l, o) ==
    LET g == [l EXCEPT !.temp_call = <<o>>]
    IN  IF o.raised THEN Throw(g, o.msg)
        ELSE [g EXCEPT !.file_path = TempName, !.pc = "parse"]

\* output_dir with "/auto" appended unless it ends with it
AutoDir(output_dir) ==
    IF Len(output_dir) >= 1 /\ output_dir[Len(output_dir)] = "auto"
    THEN output_dir
    ELSE Append(output_dir, "auto")

\* re.search(r'\/([^\/]+)\/auto$', output_dir): group(1), or path
DocId(output_dir, path) ==
    IF /\ Len(output_dir) >= 2
       /\ output_dir[Len(output_dir)] = "auto"
       /\ output_dir[Len(output_dir) - 1] # ""
    THEN <<output_dir[Len(output_dir) - 1]>>
    ELSE PathStr(path)

\* result = do_parse(file_path) and the branch on it
Parse(l, w) ==
    LET out == DoParse(l.file_path, w)
        g == [l EXCEPT !.parse_call = <<[world |-> w, outcome |-> out]>>]
    IN  IF out.raised THEN Throw(g, out.msg)
        ELSE IF Not(out.value) \/ ~In("output_dir", out.value)
        THEN [g EXCEPT !.result = out.value,
                       !.data = <<Row(g, ParseFailedText(g.path), PathStr(g.path))>>,
                       !.pc = "date"]
        ELSE LET output_dir == AutoDir(out.value.vals["output_dir"])
             IN  [g EXCEPT !.result = out.value,
                           !.output_dir = output_dir,
                           !.doc_id = DocId(output_dir, g.path),
                           !.pc = "results"]

\* parse_content = get_parse_results(output_dir) and the branch on it
Results(l, r) ==
    LET out == GetParseResults(l.output_dir, r)
        g == [l EXCEPT !.results_call = <<r>>, !.parse_content = out.value]
        parse_content == out.value
    IN  IF Not(parse_content)
        THEN [g EXCEPT !.data = <<Row(g, ResultsFailedText(g.path), g.doc_id)>>,
                       !.pc = "date"]
        ELSE LET text_content ==
                     IF /\ In("markdown_text", parse_content)
                        /\ parse_content.vals["markdown_text"] # <<>>
                     THEN parse_content.vals["markdown_text"]
                     ELSE <<>>
                 info == ExtractStructuredInfo(parse_content)
                 metadata == [file_path |-> g.path,
                              output_dir |-> g.output_dir,
                              doc_id |-> g.doc_id,
                              structured |-> info.value]
             IN  IF info.raised THEN Throw(g, info.msg)
                 ELSE [g EXCEPT
                          !.data = <<[Row(g, text_content, g.doc_id)
                                        EXCEPT !.metadata = <<metadata>>]>>,
                          !.pc = "date"]

\* the group columns and creation_date of the try block; return data
Date(l, o) ==
    LET g == WithGroup([l EXCEPT !.date_call = <<o>>])
    IN  IF o.raised THEN Throw(g, o.msg)
        ELSE [g EXCEPT !.data[1].creation_date = <<o.date>>, !.pc = "returned"]

\* creation_date of the except clause; return data
ExceptDate(l, o) ==
    LET g == [l EXCEPT !.except_date_call = <<o>>]
    IN  IF o.raised THEN Throw(g, o.msg)
        ELSE [g EXCEPT !.data[1].creation_date = <<o.date>>, !.pc = "returned"]

\* A load_file call is created; run_markdown has nothing to chunk.
InitPdf ==
    \E path \in Paths : \E group \in Groups :
        /\ load = LoadFrame(path, group)
        /\ run = Frame(<<>>, 1, 0)
        /\ shadow = Frame(<<>>, 1, 0)
        /\ demand = FALSE
        /\ stopped = FALSE
        /\ superseded = <<>>

LoadStep(next) ==
    /\ load' = next
    /\ UNCHANGED <<run, shadow, demand, stopped, superseded>>

LoadGet == load.pc = "get" /\ \E o \in GetOutcomes : LoadStep(Get(load, o))
LoadTemp == load.pc = "temp" /\ \E o \in TempOutcomes : LoadStep(Temp(load, o))
LoadParse == load.pc = "parse" /\ \E w \in ParseWorlds : LoadStep(Parse(load, w))
LoadResults ==
    load.pc = "results" /\ \E r \in ResultsResponses : LoadStep(Results(load, r))
LoadDate == load.pc = "date" /\ \E o \in DateOutcomes : LoadStep(Date(load, o))
LoadExceptDate ==
    load.pc = "except_date" /\ \E o \in DateOutcomes : LoadStep(ExceptDate(load, o))

NextPdf ==
    \/ LoadGet
    \/ LoadTemp
    \/ LoadParse
    \/ LoadResults
    \/ LoadDate
    \/ LoadExceptDate

SpecPdf == InitPdf /\ [][NextPdf]_vars

\* ------------------------------------------------- vocabulary of the claims

\* The concatenation of a sequence of sequences.
RECURSIVE Flatten(_)
Flatten(ss) == IF ss = <<>> THEN <<>> ELSE Head(ss) \o Flatten(Tail(ss))

\* How often paragraph p occurs in the paragraph list ps.
Count(p, ps) == Cardinality({i \in DOMAIN ps : ps[i] = p})

IsHeader(p) == HeaderMatch(p)
IsAtomic(p) == ~HeaderMatch(p) /\ (HasTable(p) \/ HasImage(p))
NonHeaders(ps) == SelectSeq(ps, LAMBDA p : ~IsHeader(p))

\* Document indices are those of enumerate(input): 0 .. len(input) - 1.
DocIndices == 0..(Len(run.input) - 1)

\* The paragraphs the chunker sees in document i (none for an empty text).
DocParagraphs(i) ==
    IF run.input[i + 1] = <<>> THEN <<>> ELSE Split(run.input[i + 1])

\* The chunks emitted for document i, in emission order, and their paragraphs.
DocChunks(i) == SelectSeq(chunks, LAMBDA c : c.source_doc_indices = <<i>>)
ChunkParagraphs(i) ==
    LET cs == DocChunks(i)
    IN  Flatten([k \in DOMAIN cs |-> Split(cs[k].text_chunk)])

\* tick was called for document i: the document is fully processed.
Completed(i) == \E k \in DOMAIN ticks : ticks[k] = i

LastChunk == chunks[Len(chunks)]

\* text starts with prefix
BeginsWith(text, prefix) ==
    /\ Len(prefix) <= Len(text)
    /\ SubSeq(text, 1, Len(prefix)) = prefix

\* ------------------------------------------------------------------ claims

\* C1 (as claimed): every emitted chunk has token_estimate <= max_size unless
\* it holds a table/image paragraph that by itself exceeds max_size.
C1_SizeBound ==
    \A k \in DOMAIN chunks :
        \/ chunks[k].n_tokens <= run.config.size
        \/ LET ps == Split(chunks[k].text_chunk)
           IN  \E j \in DOMAIN ps :
                 IsAtomic(ps[j]) /\ WordCount(ps[j]) > run.config.size

\* C2 (as claimed): a chunk emitted while a header is the active header begins
\* with that header's text and holds it exactly once, at every flush site;
\* the title scenario with max_size = 3 yields the one chunk with the whole
\* document as its text.
C2_HeaderAttached ==
    /\ (run.pc \in YieldPcs /\ run.current_header # <<>>) =>
          /\ BeginsWith(LastChunk.text_chunk, run.current_header \o <<ParaSep>>)
          /\ Count(run.current_header, Split(LastChunk.text_chunk)) = 1
    /\ (run.pc = "done" /\ run.input = <<TitleDoc>> /\ run.config.size = 3) =>
          chunks = << [text_chunk |-> TitleDoc,
                       source_doc_indices |-> <<0>>,
                       n_tokens |-> WordCount(TitleDoc)] >>

\* C3: every table/image paragraph of a document is, whole, a paragraph of
\* exactly one chunk of that document (never more chunk occurrences than
\* source occurrences, and as many once the document is processed), also
\* when it alone exceeds max_size: the one-table scenario document yields
\* one chunk, the whole table, with token_estimate ScenarioTableWords.
C3_Atomicity ==
    /\ \A i \in DocIndices :
          LET dps == DocParagraphs(i)
              cps == ChunkParagraphs(i)
          IN  \A j \in DOMAIN dps :
                IsAtomic(dps[j]) =>
                  /\ Count(dps[j], cps) <= Count(dps[j], dps)
                  /\ Completed(i) => Count(dps[j], cps) = Count(dps[j], dps)
    /\ (run.pc = "done" /\ run.input = <<TableDoc>>
            /\ run.config.size = ScenarioTableSize) =>
          chunks = << [text_chunk |-> TableDoc,
                       source_doc_indices |-> <<0>>,
                       n_tokens |-> ScenarioTableWords] >>

\* C3 witness: the table scenario has run to its end and emitted its chunk,
\* which exceeds max_size.
C3_Witness ==
    /\ run.pc = "done"
    /\ run.input = <<TableDoc>>
    /\ Len(chunks) = 1
    /\ chunks[1].n_tokens > run.config.size
    /\ IsAtomic(chunks[1].text_chunk)

\* C4: tick is called once per document, in document order, never more than
\* once for a document; when the sequence is consumed to its end it was
\* called len(documents) times, and an empty document has no chunk.
C4_TickPerDocument ==
    /\ ticks = [k \in 1..Len(ticks) |-> k - 1]
    /\ Len(ticks) <= Len(run.input)
    /\ run.pc = "done" =>
          /\ Len(ticks) = Len(run.input)
          /\ \A i \in DocIndices : run.input[i + 1] = <<>> => DocChunks(i) = <<>>

\* C4 witness: a consumed input with an empty document and a document of
\* two or more chunks.
C4_Witness ==
    /\ run.pc = "done"
    /\ \E i \in DocIndices : run.input[i + 1] = <<>>
    /\ \E i \in DocIndices : Len(DocChunks(i)) >= 2

\* C5: the non-header paragraphs of the chunks of a processed document, in
\* emission order, are exactly the document's non-header paragraphs in
\* source order: none dropped, none duplicated, none reordered.
C5_OrderPreserved ==
    \A i \in DocIndices :
        Completed(i) =>
            NonHeaders(ChunkParagraphs(i)) = NonHeaders(DocParagraphs(i))

\* C5 witness: a processed document with a header, several non-header
\* paragraphs and several chunks.
C5_Witness ==
    \E i \in DocIndices :
        /\ Completed(i)
        /\ Len(DocChunks(i)) >= 2
        /\ Len(NonHeaders(DocParagraphs(i))) >= 2
        /\ \E j \in DOMAIN DocParagraphs(i) : IsHeader(DocParagraphs(i)[j])

\* C6: a header paragraph is in no more chunks of its document than it
\* occurs in the document, and a header seeded into the chunk under
\* construction is no longer the active header.
C6_HeaderAttachedOnce ==
    /\ \A i \in DocIndices :
          LET dps == DocParagraphs(i)
              cps == ChunkParagraphs(i)
          IN  \A j \in DOMAIN dps :
                IsHeader(dps[j]) => Count(dps[j], cps) <= Count(dps[j], dps)
    /\ run.current_header # <<>> =>
          Count(run.current_header, run.current_chunk) = 0

\* C6 witness: a header was seeded into a table/image chunk, and a later
\* chunk of the same document was emitted without it.
C6_Witness ==
    /\ run.pc = "done"
    /\ Len(chunks) >= 2
    /\ chunks[2].source_doc_indices = chunks[1].source_doc_indices
    /\ LET ps == Split(chunks[1].text_chunk)
       IN  /\ Len(ps) = 2
           /\ IsHeader(ps[1])
           /\ IsAtomic(ps[2])
           /\ Count(ps[1], Split(chunks[2].text_chunk)) = 0

\* C7: the token estimate of every emitted chunk is the word count of its
\* final text, header prefix included.
C7_TokenEstimate ==
    \A k \in DOMAIN chunks :
        chunks[k].n_tokens = WordCount(chunks[k].text_chunk)

\* C7 witness: after an earlier chunk, the end-of-document flush has emitted
\* a chunk that starts with the active header as its prefix.
C7_Witness ==
    /\ run.pc = "yield_final"
    /\ run.current_header # <<>>
    /\ Len(chunks) >= 2
    /\ BeginsWith(LastChunk.text_chunk, run.current_header \o <<ParaSep>>)
    /\ LastChunk.n_tokens > WordCount(Join(run.current_chunk))

\* C8: every chunk names exactly the document being processed, its
\* paragraphs are paragraphs of that document, and the working state is
\* empty / 0 / empty when the paragraphs of a document start.
C8_NoChunkSpansDocuments ==
    /\ \A k \in DOMAIN chunks :
          /\ Len(chunks[k].source_doc_indices) = 1
          /\ chunks[k].source_doc_indices[1] \in DocIndices
          /\ LET ps == Split(chunks[k].text_chunk)
                 dps == DocParagraphs(chunks[k].source_doc_indices[1])
             IN  \A j \in DOMAIN ps : Count(ps[j], dps) >= 1
    /\ run.pc \in YieldPcs => LastChunk.source_doc_indices = <<run.doc_idx>>
    /\ (run.pc = "para" /\ run.para_idx = 0) =>
          /\ run.current_chunk = <<>>
          /\ run.current_header_level = 0
          /\ run.current_header = <<>>

\* C8 witness: the second document starts after a first document that left
\* a header and pending paragraphs behind, and chunks of both get emitted.
C8_Witness ==
    /\ run.pc = "done"
    /\ Len(run.input) = 2
    /\ DocChunks(0) # <<>>
    /\ DocChunks(1) # <<>>
    /\ \E j \in DOMAIN DocParagraphs(0) :
          /\ IsHeader(DocParagraphs(0)[j])
          /\ Count(DocParagraphs(0)[j], DocParagraphs(1)) = 0

\* C9: two runs that differ only in config.overlap emit the same chunks and
\* the same ticks, step for step, and no paragraph of a processed document
\* is repeated in its chunks.
C9_OverlapInert ==
    /\ shadow.chunks = run.chunks
    /\ shadow.ticks = run.ticks
    /\ \A i \in DocIndices :
          Completed(i) =>
              Len(NonHeaders(ChunkParagraphs(i))) = Len(NonHeaders(DocParagraphs(i)))

\* C9 witness: both runs, with different overlap, are consumed to their end
\* and emitted several chunks.
C9_Witness ==
    /\ run.pc = "done"
    /\ shadow.pc = "done"
    /\ shadow.config.overlap # run.config.overlap
    /\ shadow.config.size = run.config.size
    /\ shadow.input = run.input
    /\ Len(chunks) >= 2

\* C10: on a header paragraph of level L a chunk is emitted iff the pending
\* paragraphs are non-empty and (the active level is 0 or L <= the active
\* level); its text is the active header, a blank line and the joined
\* paragraphs, or the joined paragraphs alone without an active header.  A
\* strictly deeper header emits nothing and keeps the pending paragraphs.
\* The step ends with the active level L and the header paragraph as the
\* active header text.
C10_HeaderTransition ==
    [][ /\ (demand /\ AtHeaderPara(run)) =>
              LET L == HashLevel(Paragraph(run)[1])
                  flush == /\ run.current_chunk # <<>>
                           /\ (run.current_header_level = 0
                                 \/ L <= run.current_header_level)
                  joined == Join(run.current_chunk)
              IN  IF flush
                  THEN /\ Len(run'.chunks) = Len(run.chunks) + 1
                       /\ SubSeq(run'.chunks, 1, Len(run.chunks)) = run.chunks
                       /\ run'.chunks[Len(run'.chunks)].text_chunk =
                             IF run.current_header # <<>>
                             THEN run.current_header \o <<ParaSep>> \o joined
                             ELSE joined
                       /\ run'.pc = "yield_header"
                  ELSE /\ run'.chunks = run.chunks
                       /\ run'.current_chunk = run.current_chunk
                       /\ run'.current_header_level = L
                       /\ run'.current_header = Paragraph(run)
                       /\ run'.pc = "para"
        /\ (demand /\ run.pc = "yield_header") =>
              /\ run'.chunks = run.chunks
              /\ run'.current_chunk = <<>>
              /\ run'.current_header_level = HashLevel(Paragraph(run)[1])
              /\ run'.current_header = Paragraph(run)
              /\ run'.pc = "para"
      ]_vars

\* C10 witness: after "# ..." and some content, a level-2 header was taken
\* without a flush: the content is still pending and the header is active.
C10_Witness ==
    /\ run.pc = "para"
    /\ run.para_idx = 3
    /\ IsHeader(run.paragraphs[1]) /\ HeaderLevel(run.paragraphs[1]) = 1
    /\ ~IsHeader(run.paragraphs[2])
    /\ IsHeader(run.paragraphs[3]) /\ HeaderLevel(run.paragraphs[3]) = 2
    /\ run.current_chunk = <<run.paragraphs[2]>>
    /\ run.current_header = run.paragraphs[3]
    /\ run.current_header_level = 2
    /\ chunks = <<>>

\* C11: the generator runs only while the consumer is pulling.  A chunk of
\* document k is emitted when tick has been called exactly k times and its
\* emission calls no tick; the tick of document i is called in a later step
\* than the emission of each of its chunks, adds i to the calls and emits
\* nothing; once the consumer has stopped nothing runs any more, so the
\* document in progress and the later ones have no tick.
C11_TickOrdering ==
    [][ /\ Len(run'.chunks) > Len(run.chunks) =>
              /\ demand
              /\ run'.ticks = run.ticks
              /\ run'.chunks[Len(run'.chunks)].source_doc_indices =
                    <<Len(run.ticks)>>
        /\ run'.ticks # run.ticks =>
              /\ demand
              /\ run'.ticks = Append(run.ticks, run.doc_idx)
              /\ run'.chunks = run.chunks
              /\ \A k \in DOMAIN run.chunks :
                    run.chunks[k].source_doc_indices[1] <= run.doc_idx
              /\ run'.doc_idx = run.doc_idx + 1
        /\ stopped => (run' = run /\ stopped')
        /\ stopped' =>
              /\ Len(run'.ticks) = run'.doc_idx
              /\ \A k \in DOMAIN run'.ticks : run'.ticks[k] < run'.doc_idx
      ]_vars

\* C11 witness: the consumer stopped at a chunk of the second document; the
\* first document, which had a chunk, has its tick and the second has none.
C11_Witness ==
    /\ stopped
    /\ run.pc \in YieldPcs
    /\ run.doc_idx = 1
    /\ ticks = <<0>>
    /\ DocChunks(0) # <<>>
    /\ LastChunk.source_doc_indices = <<1>>

\* C12: when a plain or table/image paragraph has been appended, a chunk is
\* emitted iff the word count of the joined pending paragraphs exceeds
\* max_size; its text is exactly the joined pending paragraphs (a header is
\* in it only if it was seeded as a pending paragraph, never as a prefix
\* added by the flush) and its token estimate their word count.  The flush
\* empties the pending paragraphs and leaves the active header level and text
\* as they were; a plain paragraph neither seeds nor clears the header.
C12_OverflowFlush ==
    [][ /\ (demand /\ (AtPlainPara(run) \/ AtTablePara(run))) =>
              LET seeds == /\ AtTablePara(run)
                           /\ run.current_chunk = <<>>
                           /\ run.current_header # <<>>
                  pending == IF seeds
                             THEN <<run.current_header, Paragraph(run)>>
                             ELSE Append(run.current_chunk, Paragraph(run))
                  joined == Join(pending)
              IN  /\ run'.current_chunk = pending
                  /\ run'.current_header_level = run.current_header_level
                  /\ run'.current_header =
                        IF seeds THEN <<>> ELSE run.current_header
                  /\ IF WordCount(joined) > run.config.size
                     THEN /\ run'.chunks =
                                Append(run.chunks,
                                       [text_chunk |-> joined,
                                        source_doc_indices |-> <<run.doc_idx>>,
                                        n_tokens |-> WordCount(joined)])
                          /\ run'.pc = IF AtPlainPara(run)
                                       THEN "yield_plain" ELSE "yield_table"
                     ELSE /\ run'.chunks = run.chunks
                          /\ run'.pc = "para"
        /\ (demand /\ run.pc \in {"yield_table", "yield_plain"}) =>
              /\ run.chunks[Len(run.chunks)].text_chunk = Join(run.current_chunk)
              /\ run'.chunks = run.chunks
              /\ run'.current_chunk = <<>>
              /\ run'.current_header_level = run.current_header_level
              /\ run'.current_header = run.current_header
              /\ run'.pc = "para"
      ]_vars

\* C12 witness: under an active header two plain paragraphs overflowed; the
\* emitted chunk is the two paragraphs without the header.
C12_Witness ==
    /\ run.pc = "yield_plain"
    /\ run.current_header # <<>>
    /\ Len(run.current_chunk) >= 2
    /\ LastChunk.text_chunk = Join(run.current_chunk)
    /\ ~BeginsWith(LastChunk.text_chunk, run.current_header)
    /\ LastChunk.n_tokens > run.config.size

\* How often header h of document i was replaced while nothing was pending.
SupersededCount(i, h) ==
    Cardinality({k \in DOMAIN superseded :
                    superseded[k] = [doc_idx |-> i, header |-> h]})

\* C13: a header paragraph that arrives while a header is active and nothing
\* is pending emits no chunk and becomes the active header, with its level;
\* nothing is pending afterwards.  The replaced header is in no chunk emitted
\* afterwards: the chunks of the document hold a header text at most as often
\* as the document has it, less the times it was so replaced (not at all if
\* the document has it once).
C13_LastHeaderWins ==
    /\ [][ (demand /\ Supersedes(run)) =>
              /\ run'.chunks = run.chunks
              /\ run'.current_header = Paragraph(run)
              /\ run'.current_header_level = HashLevel(Paragraph(run)[1])
              /\ run'.current_chunk = <<>>
              /\ run'.pc = "para"
         ]_vars
    /\ [](\A k \in DOMAIN superseded :
            LET i == superseded[k].doc_idx
                h == superseded[k].header
            IN  Count(h, ChunkParagraphs(i)) + SupersededCount(i, h)
                    <= Count(h, DocParagraphs(i)))

\* C13 witness: the first of two consecutive headers was replaced, and the
\* document went on to emit a chunk under the second header, without the
\* first.
C13_Witness ==
    /\ run.pc = "done"
    /\ Len(superseded) >= 1
    /\ LET i == superseded[1].doc_idx
           cs == DocChunks(i)
       IN  /\ Len(cs) >= 1
           /\ \E j \in DOMAIN DocParagraphs(i) :
                 /\ IsHeader(DocParagraphs(i)[j])
                 /\ DocParagraphs(i)[j] # superseded[1].header
                 /\ BeginsWith(cs[1].text_chunk, DocParagraphs(i)[j])
           /\ Count(superseded[1].header, ChunkParagraphs(i)) = 0

\* C14: every emitted chunk has a paragraph that is not a header; at every
\* flush the pending paragraphs are non-empty and hold a non-header
\* paragraph; a processed document whose paragraphs are all headers has no
\* chunk and exactly one tick.
C14_NoHeaderAlone ==
    /\ \A k \in DOMAIN chunks :
          LET ps == Split(chunks[k].text_chunk)
          IN  \E j \in DOMAIN ps : ~IsHeader(ps[j])
    /\ run.pc \in YieldPcs =>
          /\ run.current_chunk # <<>>
          /\ \E j \in DOMAIN run.current_chunk : ~IsHeader(run.current_chunk[j])
    /\ \A i \in DocIndices :
          LET dps == DocParagraphs(i)
          IN  (Completed(i) /\ \A j \in DOMAIN dps : IsHeader(dps[j])) =>
                 /\ DocChunks(i) = <<>>
                 /\ Count(i, ticks) = 1

\* C14 witness: a consumed input with a document of headers only, which has
\* no chunk and its tick, and another document that has a chunk.
C14_Witness ==
    /\ run.pc = "done"
    /\ Len(chunks) >= 1
    /\ \E i \in DocIndices :
          LET dps == DocParagraphs(i)
          IN  /\ Len(dps) >= 2
              /\ \A j \in DOMAIN dps : IsHeader(dps[j])
              /\ DocChunks(i) = <<>>
              /\ Count(i, ticks) = 1

\* C15: whenever a paragraph has been fully processed, the joined pending
\* paragraphs have at most max_size words; they have more only between the
\* append and the overflow flush of one step, that is while the generator
\* is suspended at the yield of an overflow flush.
C15_PendingBound ==
    /\ run.pc = "para" =>
          WordCount(Join(run.current_chunk)) <= run.config.size
    /\ WordCount(Join(run.current_chunk)) > run.config.size =>
          /\ run.pc \in {"yield_table", "yield_plain"}
          /\ LastChunk.text_chunk = Join(run.current_chunk)

\* C15 witness: several paragraphs are pending after a paragraph was
\* processed, with exactly max_size words.
C15_Witness ==
    /\ run.pc = "para"
    /\ run.para_idx >= 2
    /\ Len(run.current_chunk) >= 2
    /\ WordCount(Join(run.current_chunk)) = run.config.size

\* An HTTP exchange that gives do_parse or get_parse_results no dict.
HttpFails(r) ==
    r.raises \/ r.status_code # OkStatus \/ r.json_raises \/ ~r.is_dict

\* The load_file call met a failure of one of its collaborators: storage.get
\* or the temporary file raised, do_parse returned None or a result without
\* 'output_dir', get_parse_results returned None or an empty result, the
\* contents of the result were malformed, or storage.get_creation_date
\* raised in the try block.
LoadFailed ==
    \/ load.get_call # <<>> /\ load.get_call[1].raised
    \/ load.temp_call # <<>> /\ load.temp_call[1].raised
    \/ /\ load.parse_call # <<>>
       /\ \/ load.parse_call[1].outcome.value.is_none
          \/ "output_dir" \notin load.parse_call[1].outcome.value.keys
    \/ /\ load.results_call # <<>>
       /\ \/ HttpFails(load.results_call[1])
          \/ load.results_call[1].body.keys = {}
          \/ /\ "contents" \in load.results_call[1].body.keys
             /\ load.results_call[1].body.vals["contents"] = <<"list">>
    \/ load.date_call # <<>> /\ load.date_call[1].raised

\* C16: load_file never raises and returns exactly one record, for the path
\* it was called with, whatever its collaborators do.  After a failure the
\* record's text is a bracketed tag, a blank and the path (the processing
\* error tag is followed by the error as well); without a failure it is the
\* markdown text of the parse result, or the empty string when there is
\* none.  do_parse never raises, and returns None whenever to_b64, the POST,
\* the status code or the JSON body fails.
C16_LoaderIsolation ==
    /\ load.pc \in TryPcs \cup {"except_date", "returned"}
    /\ load.parse_call # <<>> =>
          LET c == load.parse_call[1]
          IN  /\ ~c.outcome.raised
              /\ (c.world.b64_raises \/ HttpFails(c.world.response)) =>
                    c.outcome.value = None
              /\ ~(c.world.b64_raises \/ HttpFails(c.world.response)) =>
                    /\ ~c.outcome.value.is_none
                    /\ c.outcome.value.vals["file_path"] = load.file_path
    /\ load.pc = "returned" =>
          /\ Len(load.data) = 1
          /\ load.data[1].title = <<load.path[Len(load.path)]>>
          /\ load.data[1].creation_date # <<>>
          /\ IF LoadFailed
             THEN \E tag \in {ParseFailedTag, ResultsFailedTag, ProcessErrorTag} :
                     BeginsWith(load.data[1].text,
                                <<tag, " ">> \o PathStr(load.path))
             ELSE load.data[1].text =
                     IF "markdown_text" \in load.results_call[1].body.keys
                     THEN load.results_call[1].body.vals["markdown_text"]
                     ELSE <<>>

\* C16 witness: the PDF was parsed and its markdown fetched, then
\* storage.get_creation_date raised in the try block and again in the except
\* clause; load_file returned the processing-error record with the fallback
\* date.
C16_Witness ==
    /\ load.pc = "returned"
    /\ Len(load.path) = 2
    /\ load.parse_content.vals["markdown_text"] = MarkdownText
    /\ load.date_call # <<>> /\ load.date_call[1].raised
    /\ load.except_date_call # <<>> /\ load.except_date_call[1].raised
    /\ Len(load.data) = 1
    /\ load.data[1].text = ProcessErrorText(load.path, "creation_date")
    /\ load.data[1].creation_date = <<"now">>

====
